---- MODULE Spec2Model ----
(***************************************************************************)
(* Vehicle valuation engine: VehicleService.calculate_market_value with    *)
(* its memoisation, the per-key regression model cache, the regression     *)
(* trainer, the heuristic fallback and the listings store.                 *)
(*                                                                         *)
(* Conventions                                                             *)
(*   - money is an integer number of cents (listing_price is Numeric(10,2));*)
(*     float products and quotients are fixed-point, truncated to a cent;  *)
(*   - trim, colour and state texts are sequences of one-character strings *)
(*     (the code lower-cases them and searches them for substrings);       *)
(*   - make, model, cache keys and method labels are strings, built with   *)
(*     \o exactly as the f-strings of the code build them;                 *)
(*   - an optional value (Python None, SQL NULL) is None or Some(v).       *)
(***************************************************************************)
EXTENDS Integers, Sequences, FiniteSets, TLC

\* Optional values: None is the empty tuple, a present value v is <<v>>.
None == <<>>

Some(v) == <<v>>

Val(o) == o[1]

Max(a, b) == IF a >= b THEN a ELSE b

Abs(a) == IF a >= 0 THEN a ELSE -a

(***************************************************************************)
(* Text helpers: str.lower(), str.upper(), the `in` substring test.        *)
(***************************************************************************)
UpperChars == <<"A","B","C","D","E","F","G","H","I","J","K","L","M",
                "N","O","P","Q","R","S","T","U","V","W","X","Y","Z">>

LowerChars == <<"a","b","c","d","e","f","g","h","i","j","k","l","m",
                "n","o","p","q","r","s","t","u","v","w","x","y","z">>

LowerChar(c) ==
  IF \E i \in 1..26 : UpperChars[i] = c
  THEN LowerChars[CHOOSE i \in 1..26 : UpperChars[i] = c]
  ELSE c

UpperChar(c) ==
  IF \E i \in 1..26 : LowerChars[i] = c
  THEN UpperChars[CHOOSE i \in 1..26 : LowerChars[i] = c]
  ELSE c

Lower(s) == [i \in 1..Len(s) |-> LowerChar(s[i])]

Upper(s) == [i \in 1..Len(s) |-> UpperChar(s[i])]

\* Python's `keyword in text` for strings: contiguous substring.
Contains(text, keyword) ==
  \E i \in 0..(Len(text) - Len(keyword)) :
    \A j \in 1..Len(keyword) : text[i + j] = keyword[j]

\* Python truthiness of an optional int (`if mileage:`) and of an optional
\* string (`if trim:`): None, 0 and "" are falsy.
TruthyInt(o) == o # None /\ Val(o) # 0

TruthyText(o) == o # None /\ Val(o) # <<>>

(***************************************************************************)
(* Keyword tables of the heuristic adjuster (vehicle_service.py).          *)
(***************************************************************************)
premium_trims == { <<"l","i","m","i","t","e","d">>,
                   <<"p","l","a","t","i","n","u","m">>,
                   <<"s","p","o","r","t">>,
                   <<"t","i","t","a","n","i","u","m">>,
                   <<"p","r","e","m","i","u","m">>,
                   <<"x","l","t">>,
                   <<"l","a","r","i","a","t">> }

budget_trims == { <<"b","a","s","e">>, <<"s">>, <<"l","x">>, <<"l","e">> }

premium_body_colors == { <<"b","l","a","c","k">>, <<"w","h","i","t","e">>,
                         <<"s","i","l","v","e","r">>, <<"g","r","a","y">> }

discount_body_colors == { <<"w","i","n","d"," ","c","h","i","l","l"," ","p","e","a","r","l">>,
                          <<"i","c","e"," ","c","a","p">>, <<"r","e","d">> }

\* state -> multiplier in hundredths (1.20 is 120)
state_factor(state) ==
  CASE state = <<"C","A">> -> 120
    [] state = <<"N","Y">> -> 108
    [] state = <<"W","A">> -> 107
    [] state = <<"T","X">> -> 97
    [] state = <<"O","H">> -> 95
    [] state = <<"M","I">> -> 93
    [] OTHER -> 100

\* price * (pct / 100), truncated to a cent
MulPct(price, pct) == (price * pct) \div 100

avg_miles_per_year == 12000

\* _adjust_for_mileage without the floor of 30% of the base price
adjust_for_mileage_NoFloor(base_price, mileage, year, current_year) ==
  LET mileage_diff == mileage - (current_year - year) * 12000
  IN  base_price - (IF mileage_diff > 0
                    THEN 15 * mileage_diff + (mileage_diff * mileage_diff) \div 20000
                    ELSE mileage_diff * 8)

\* _adjust_for_mileage counting the current year into the age
adjust_for_mileage_AgePlusOne(base_price, mileage, year, current_year) ==
  LET mileage_diff == mileage - (current_year - year + 1) * 12000
      adjustment   == IF mileage_diff > 0
                      THEN 15 * mileage_diff + (mileage_diff * mileage_diff) \div 20000
                      ELSE mileage_diff * 8
  IN  Max(base_price - adjustment, (base_price * 3) \div 10)

(***************************************************************************)
(* VehicleService._adjust_for_mileage; current_year is datetime.now().year *)
(* adjustment (dollars) = diff * (0.15 + diff / 100000 * 0.05) above the   *)
(* expected mileage, diff * 0.08 at or below it; in cents that is          *)
(* 15 * diff + diff^2 / 20000, and 8 * diff.                               *)
(***************************************************************************)
adjust_for_mileage(base_price, mileage, year, current_year) ==
  LET vehicle_age    == current_year - year
      expected_miles == vehicle_age * avg_miles_per_year
      mileage_diff   == mileage - expected_miles
      adjustment     == IF mileage_diff > 0
                        THEN 15 * mileage_diff + (mileage_diff * mileage_diff) \div 20000
                        ELSE mileage_diff * 8
      adjusted_price == base_price - adjustment
  IN  Max(adjusted_price, (base_price * 3) \div 10)

(***************************************************************************)
(* VehicleService._adjust_for_trim: premium keywords first, then budget.   *)
(***************************************************************************)
adjust_for_trim(price, trim) ==
  LET t == Lower(trim)
  IN  IF \E keyword \in premium_trims : Contains(t, keyword) THEN MulPct(price, 110)
      ELSE IF \E keyword \in budget_trims : Contains(t, keyword) THEN MulPct(price, 95)
      ELSE price

adjust_for_body_color(price, body_color) ==
  LET c == Lower(body_color)
  IN  IF c \in premium_body_colors THEN MulPct(price, 108)
      ELSE IF c \in discount_body_colors THEN MulPct(price, 97)
      ELSE price

adjust_for_state(price, state) == MulPct(price, state_factor(Upper(state)))

(***************************************************************************)
(* VehicleService._format_price: round(price / 100) * 100 with Python's    *)
(* round-half-to-even, rendered by f"${rounded:,.0f}".                     *)
(***************************************************************************)
Digits == <<"0","1","2","3","4","5","6","7","8","9">>

\* int(price / 100) in place of round(price / 100)
RoundHalfEven_Truncates(cents) == cents \div 10000

\* round(x) for x = cents / 10000 (price in dollars divided by 100)
RoundHalfEven(cents) ==
  LET q == cents \div 10000
      r == cents % 10000
  IN  IF r < 5000 THEN q
      ELSE IF r > 5000 THEN q + 1
      ELSE IF q % 2 = 0 THEN q ELSE q + 1

\* the digits of n >= 0 with a comma between groups of three
GroupDigits(n) ==
  LET group[m \in Nat] ==
        IF m < 10 THEN << Digits[m + 1] >>
        ELSE IF m < 100 THEN << Digits[(m \div 10) + 1], Digits[(m % 10) + 1] >>
        ELSE IF m < 1000 THEN << Digits[(m \div 100) + 1], Digits[((m \div 10) % 10) + 1],
                                 Digits[(m % 10) + 1] >>
        ELSE group[m \div 1000] \o
             << ",", Digits[((m \div 100) % 10) + 1], Digits[((m \div 10) % 10) + 1],
                Digits[(m % 10) + 1] >>
  IN  group[n]

NAString == <<"N","/","A">>

\* the rounded amount in dollars
rounded_amount(price) == RoundHalfEven(price) * 100

format_price(price) ==
  IF price = None THEN NAString
  ELSE LET rounded == rounded_amount(Val(price))
       IN  IF rounded < 0 THEN <<"$", "-">> \o GroupDigits(-rounded)
           ELSE <<"$">> \o GroupDigits(rounded)

(***************************************************************************)
(* RegressionService feature encoders.                                     *)
(***************************************************************************)
regression_premium_trims == { <<"l","i","m","i","t","e","d">>,
                              <<"p","l","a","t","i","n","u","m">>,
                              <<"s","p","o","r","t">>,
                              <<"t","i","t","a","n","i","u","m">>,
                              <<"p","r","e","m","i","u","m">> }

\* _trim_to_numeric: 0 for an absent or empty trim, 2 premium, 0 budget, else 1
trim_to_numeric(trim) ==
  IF ~TruthyText(trim) THEN 0
  ELSE LET t == Lower(Val(trim))
       IN  IF \E p \in regression_premium_trims : Contains(t, p) THEN 2
           ELSE IF \E b \in budget_trims : Contains(t, b) THEN 0
           ELSE 1

is_premium_color(color) ==
  IF ~TruthyText(color) THEN 0
  ELSE IF Lower(Val(color)) \in premium_body_colors THEN 1 ELSE 0

high_cost_states == { <<"C","A">>, <<"N","Y">>, <<"W","A">> }

is_high_cost_state(state) ==
  IF ~TruthyText(state) THEN 0
  ELSE IF Upper(Val(state)) \in high_cost_states THEN 1 ELSE 0

(***************************************************************************)
(* The listings store (table vehicles) and VehicleRepository.  A listing   *)
(* is a record; its id is its index in the store.  A filter dictionary is  *)
(* a record whose optional keys are None when the key is absent.           *)
(***************************************************************************)
Listing(year, make, model, trim, color, state, mileage, price) ==
  [ year |-> year, make |-> make, model |-> model, trim |-> trim,
    exterior_color |-> color, dealer_state |-> state,
    listing_mileage |-> mileage, listing_price |-> price ]

Filters(year, make, model, mileage, trim, color, dealer_state) ==
  [ year |-> year, make |-> make, model |-> model, mileage |-> mileage,
    trim |-> trim, color |-> color, dealer_state |-> dealer_state ]

\* Python int(x) of the float n * num / den: truncation toward zero
TruncDiv(n, den) == IF n >= 0 THEN n \div den ELSE -((-n) \div den)

\* the WHERE clause shared by get_listings_with_filters and
\* get_average_price_with_filters (a comparison with NULL selects nothing)
FilterMatches(l, filters) ==
  /\ l.year = filters.year
  /\ l.make = filters.make
  /\ l.model = filters.model
  /\ l.listing_price # None
  /\ TruthyText(filters.trim) => l.trim = filters.trim
  /\ TruthyText(filters.color) => l.exterior_color = filters.color
  /\ TruthyText(filters.dealer_state) => l.dealer_state = filters.dealer_state
  /\ TruthyInt(filters.mileage) =>
       LET lower_bound == TruncDiv(Val(filters.mileage) * 8, 10)
           upper_bound == TruncDiv(Val(filters.mileage) * 12, 10)
       IN  /\ l.listing_mileage # None
           /\ lower_bound <= Val(l.listing_mileage)
           /\ Val(l.listing_mileage) <= upper_bound

MatchingIds(db, filters) == { i \in 1..Len(db) : FilterMatches(db[i], filters) }

\* ORDER BY listing_mileage (NULLs first, ties by id)
MileageBefore(db, i, j) ==
  LET a == db[i].listing_mileage
      b == db[j].listing_mileage
  IN  IF a = None /\ b = None THEN i <= j
      ELSE IF a = None THEN TRUE
      ELSE IF b = None THEN FALSE
      ELSE IF Val(a) = Val(b) THEN i <= j
      ELSE Val(a) < Val(b)

\* the k-th row is the one with k rows at or before it (the order is total)
OrderByMileage(db, ids) ==
  LET ordered[S \in SUBSET (1..Len(db))] ==
        [ k \in 1..Cardinality(S) |->
            CHOOSE i \in S : Cardinality({ j \in S : MileageBefore(db, j, i) }) = k ]
  IN  ordered[ids]

default_limit == 100

\* get_listings_with_filters: the ids of the rows returned, in order;
\* limit is None (no LIMIT) or Some(n)
get_listings_with_filters(db, filters, limit) ==
  LET rows == OrderByMileage(db, MatchingIds(db, filters))
  IN  IF limit # None /\ Val(limit) # 0 /\ Len(rows) > Val(limit)
      THEN SubSeq(rows, 1, Val(limit))
      ELSE rows

SumPrices(db, ids) ==
  LET total[S \in SUBSET (1..Len(db))] ==
        IF S = {} THEN 0
        ELSE LET i == CHOOSE x \in S : TRUE
             IN  Val(db[i].listing_price) + total[S \ {i}]
  IN  total[ids]

\* get_average_price_with_filters: AVG(listing_price), and
\* `float(result) if result else None` (no row, or an average of 0: None)
get_average_price_with_filters(db, filters) ==
  LET ids == MatchingIds(db, filters)
  IN  IF ids = {} THEN None
      ELSE LET result == SumPrices(db, ids) \div Cardinality(ids)
           IN  IF result # 0 THEN Some(result) ELSE None

(***************************************************************************)
(* The valuation request: the arguments of calculate_market_value.         *)
(***************************************************************************)
Request(year, make, model, mileage, trim, color, dealer_state) ==
  [ year |-> year, make |-> make, model |-> model, mileage |-> mileage,
    trim |-> trim, color |-> color, dealer_state |-> dealer_state ]

\* vehicle_service.py lines 29-37: the names appended, in this order
requested_features(r) ==
  (IF r.mileage # None THEN <<"mileage">> ELSE <<>>) \o
  (IF r.trim # None THEN <<"trim">> ELSE <<>>) \o
  (IF r.color # None THEN <<"color">> ELSE <<>>) \o
  (IF r.dealer_state # None THEN <<"state">> ELSE <<>>)

Range(seq) == { seq[i] : i \in 1..Len(seq) }

\* sorted(requested_features): the four names in lexicographic order
AlphabeticalFeatures == <<"color", "mileage", "state", "trim">>

IsMember(x, S) == x \in S

\* the key built without sorted()
sorted_features_Unsorted(features) == features

sorted_features(features) ==
  LET S == Range(features)
      pick(f) == IsMember(f, S)
  IN  SelectSeq(AlphabeticalFeatures, pick)

RECURSIVE JoinWith(_, _)
\* sep.join(parts)
JoinWith(sep, parts) ==
  IF parts = <<>> THEN ""
  ELSE IF Len(parts) = 1 THEN parts[1]
  ELSE parts[1] \o sep \o JoinWith(sep, Tail(parts))

DigitStrings == <<"0","1","2","3","4","5","6","7","8","9">>

RECURSIVE NatToStr(_)
NatToStr(n) ==
  IF n < 10 THEN DigitStrings[n + 1]
  ELSE NatToStr(n \div 10) \o DigitStrings[(n % 10) + 1]

\* str(year) as the f-string renders it
IntToStr(n) == IF n < 0 THEN "-" \o NatToStr(-n) ELSE NatToStr(n)

\* vehicle_service.py lines 39-41
model_key(r) ==
  "regression_" \o IntToStr(r.year) \o "_" \o r.make \o "_" \o r.model \o "_"
    \o JoinWith("_", sorted_features(requested_features(r)))

(***************************************************************************)
(* RegressionService.train_model_for_vehicle.                              *)
(*                                                                         *)
(* StandardScaler and LinearRegression are library code.  What they return *)
(* for a training table is fixed by the table, and is modelled by `fit`:   *)
(* the library's answer, drawn once from FitOutcomes (an affine predictor  *)
(* of the raw feature values, or an exception raised inside the try).      *)
(* The scaler and the regression are one value, regression_model.          *)
(***************************************************************************)
encoded_value(l, f) ==
  CASE f = "mileage" -> l.listing_mileage
    [] f = "trim"    -> Some(trim_to_numeric(l.trim))
    [] f = "color"   -> Some(is_premium_color(l.exterior_color))
    [] f = "state"   -> Some(is_high_cost_state(l.dealer_state))

min_listings == 10

min_rows == 5

\* the 3-tuple of line 31 and the 4-tuple of lines 59 and 76
NoModel3 == [ arity |-> 3, regression_model |-> None, used_features |-> <<>>, rmse |-> None ]

NoModel4 == [ arity |-> 4, regression_model |-> None, used_features |-> <<>>, rmse |-> None ]

\* the DataFrame without dropna()
usable_rows_KeepsMissing(db, listings, features_to_use) == Range(listings)

\* rows of the DataFrame after dropna()
usable_rows(db, listings, features_to_use) ==
  { i \in Range(listings) :
      \A f \in Range(features_to_use) : encoded_value(db[i], f) # None }

\* features with more than one distinct value in the remaining rows
available_features_of(db, rows, features_to_use) ==
  LET varies(f) == Cardinality({ encoded_value(db[i], f) : i \in rows }) > 1
  IN  SelectSeq(features_to_use, varies)

train_model_for_vehicle(db, year, make, model, features_to_use, outcome) ==
  LET filters  == Filters(year, make, model, None, None, None, None)
      listings == get_listings_with_filters(db, filters, None)
      rows     == usable_rows(db, listings, features_to_use)
      available_features == available_features_of(db, rows, features_to_use)
  IN  IF Len(listings) < min_listings THEN NoModel3
      ELSE IF Len(available_features) = 0 \/ Cardinality(rows) < min_rows THEN NoModel4
      ELSE IF outcome.raises THEN NoModel4
      ELSE [ arity |-> 4,
             regression_model |-> Some([ intercept |-> outcome.intercept,
                                         weights   |-> outcome.weights,
                                         vehicle   |-> <<year, make, model>>,
                                         rows      |-> rows ]),
             used_features |-> available_features,
             rmse |-> outcome.rmse ]

\* scaler.transform followed by regression_model.predict
RECURSIVE WeightedSum(_, _, _)
WeightedSum(weights, input_features, names) ==
  IF names = {} THEN 0
  ELSE LET f == CHOOSE x \in names : TRUE
       IN  weights[f] * input_features[f] + WeightedSum(weights, input_features, names \ {f})

predict(regression_model, input_features) ==
  regression_model.intercept
    + WeightedSum(regression_model.weights, input_features, DOMAIN input_features)

(***************************************************************************)
(* Confidence tiers.  A percentage is held in hundredths of a percent      *)
(* (the code reports round(pct, 2)); truncation keeps `pct < 5` exact.     *)
(***************************************************************************)
\* floor(num / den * 100 * 100) for num >= 0, den > 0, by long division
PctHundredths(num, den) ==
  LET q == (num * 100) \div den
      r == (num * 100) % den
  IN  q * 100 + (r * 100) \div den

\* the tiers with `<=` in place of `<`
determine_confidence_Inclusive(rmse_percentage) ==
  IF rmse_percentage = None THEN "medium"
  ELSE IF Val(rmse_percentage) <= 500 THEN "high"
  ELSE IF Val(rmse_percentage) <= 1500 THEN "medium"
  ELSE "low"

determine_confidence(rmse_percentage) ==
  IF rmse_percentage = None THEN "medium"
  ELSE IF Val(rmse_percentage) < 500 THEN "high"
  ELSE IF Val(rmse_percentage) < 1500 THEN "medium"
  ELSE "low"

\* the tiers without the test of the sample size
determine_fallback_confidence_AnySize(sample_size, error_pct) ==
  IF sample_size = 0 THEN "low"
  ELSE IF error_pct = None THEN "medium"
  ELSE IF Val(error_pct) < 2000 THEN "medium"
  ELSE "low"

determine_fallback_confidence(sample_size, error_pct) ==
  IF sample_size = 0 THEN "low"
  ELSE IF error_pct = None THEN (IF sample_size >= 5 THEN "medium" ELSE "low")
  ELSE IF Val(error_pct) < 1000 /\ sample_size >= 10 THEN "medium"
  ELSE IF Val(error_pct) < 2000 /\ sample_size >= 5 THEN "medium"
  ELSE "low"

(***************************************************************************)
(* The result dictionary.  price, original_price, path and seen are not    *)
(* fields of the dictionary: they record the number the estimate was       *)
(* formatted from, the average before adjustment, the branch taken and the *)
(* size of the store the queries ran against.  calculation_date is the     *)
(* ordinal of the call (utcnow() differs from one execution to the next).  *)
(***************************************************************************)
NoResult ==
  [ status |-> "none", error |-> "", estimate |-> <<>>, listings |-> <<>>,
    calculation_date |-> 0, method |-> "", confidence |-> "",
    rmse |-> None, rmse_percentage |-> None, features_used |-> <<>>,
    samples_used |-> None, path |-> "", price |-> None,
    original_price |-> None, seen |-> 0 ]

ErrorResult(kind) == [ NoResult EXCEPT !.status = "error", !.error = kind ]

\* the label without the space
method_label_Unspaced(used_features) == "regression(" \o JoinWith(", ", used_features) \o ")"

\* line 93: f"regression ({', '.join(used_features)})"
method_label(used_features) == "regression (" \o JoinWith(", ", used_features) \o ")"

\* vehicle_service.py lines 56-107; t is the tuple (model, scaler, used, rmse)
regression_result(db, r, t, date) ==
  LET used == Range(t.used_features)
      input_features ==
        [ f \in used |->
            CASE f = "mileage" -> r.mileage
              [] f = "trim"    -> Some(trim_to_numeric(r.trim))
              [] f = "color"   -> Some(is_premium_color(r.color))
              [] f = "state"   -> Some(is_high_cost_state(r.dealer_state)) ]
  IN  IF \E f \in used : input_features[f] = None
      THEN ErrorResult("ValueError")  \* a NaN input: predict() raises
      ELSE
      LET predicted_price == predict(Val(t.regression_model),
                                     [ f \in used |-> Val(input_features[f]) ])
          listings == get_listings_with_filters(
                        db, Filters(r.year, r.make, r.model, None, None, None, None),
                        Some(default_limit))
          rmse_percentage ==
            IF t.rmse # None /\ predicted_price > 0
            THEN Some(PctHundredths(Val(t.rmse), predicted_price))
            ELSE None
          confidence ==
            IF t.rmse # None /\ predicted_price > 0
            THEN determine_confidence(rmse_percentage)
            ELSE IF t.rmse = None /\ Len(listings) >= 10 THEN "medium"
            ELSE "low"
      IN  [ NoResult EXCEPT
              !.status = "ok",
              !.estimate = format_price(Some(predicted_price)),
              !.listings = listings,
              !.calculation_date = date,
              !.method = method_label(t.used_features),
              !.confidence = confidence,
              !.rmse = t.rmse,
              !.rmse_percentage = rmse_percentage,
              !.features_used = t.used_features,
              !.samples_used = Some(Len(listings)),
              !.path = "regression",
              !.price = Some(predicted_price),
              !.seen = Len(db) ]

\* lines 154-157: price_diff and error_pct
fallback_error_pct(avg_price, original_price) ==
  LET price_diff == Abs(avg_price - original_price)
  IN  IF original_price > 0
      THEN Some(PctHundredths(price_diff, original_price))
      ELSE None

\* vehicle_service.py lines 124-138: a key is set only for a truthy argument
fallback_filters(r) ==
  Filters(r.year, r.make, r.model,
          IF TruthyInt(r.mileage) THEN r.mileage ELSE None,
          IF TruthyText(r.trim) THEN r.trim ELSE None,
          IF TruthyText(r.color) THEN r.color ELSE None,
          IF TruthyText(r.dealer_state) THEN r.dealer_state ELSE None)

\* lines 143-185: the answer built from what the two queries returned
fallback_answer(r, listings, avg_price, current_year, date, seen) ==
  IF avg_price # None
  THEN
    LET original_price == Val(avg_price)
        p1 == IF TruthyInt(r.mileage)
              THEN adjust_for_mileage(original_price, Val(r.mileage), r.year, current_year)
              ELSE original_price
        p2 == IF TruthyText(r.trim) THEN adjust_for_trim(p1, Val(r.trim)) ELSE p1
        p3 == IF TruthyText(r.color) THEN adjust_for_body_color(p2, Val(r.color)) ELSE p2
        p4 == IF TruthyText(r.dealer_state) THEN adjust_for_state(p3, Val(r.dealer_state)) ELSE p3
        error_pct == fallback_error_pct(p4, original_price)
    IN  [ NoResult EXCEPT
            !.status = "ok",
            !.estimate = format_price(Some(p4)),
            !.listings = listings,
            !.calculation_date = date,
            !.method = "adjusted_average",
            !.confidence = determine_fallback_confidence(Len(listings), error_pct),
            !.rmse_percentage = error_pct,
            !.path = "fallback",
            !.price = Some(p4),
            !.original_price = avg_price,
            !.seen = seen ]
  ELSE [ NoResult EXCEPT
           !.status = "ok",
           !.estimate = NAString,
           !.calculation_date = date,
           !.method = "no_data",
           !.confidence = "low",
           !.path = "fallback",
           !.seen = seen ]

\* VehicleService._get_fallback_estimate: the filters, the two queries (lines
\* 140-141, each run once), then the answer
get_fallback_estimate(db, r, current_year, date) ==
  LET filters == fallback_filters(r)
      answers ==
        { fallback_answer(r, listings, avg_price, current_year, date, Len(db)) :
            listings  \in { get_listings_with_filters(db, filters, Some(default_limit)) },
            avg_price \in { get_average_price_with_filters(db, filters) } }
  IN  CHOOSE answer \in answers : TRUE

(***************************************************************************)
(* VehicleService.get_makes_and_models and the two repository queries it   *)
(* runs for each year.  DISTINCT rows come in no stated order: the makes   *)
(* and the models of a make are sets.                                      *)
(***************************************************************************)
get_makes_by_year(db, year) ==
  { db[i].make : i \in { j \in 1..Len(db) : db[j].year = year } }

get_models_by_make_year(db, year, make) ==
  { db[i].model : i \in { j \in 1..Len(db) : db[j].year = year /\ db[j].make = make } }

first_catalog_year == 1990

\* range(1990, current_year) in place of range(1990, current_year + 1)
get_makes_and_models_ExclusiveEnd(db, current_year) ==
  LET years == { y \in first_catalog_year..(current_year - 1) : get_makes_by_year(db, y) # {} }
  IN  [ year \in years |->
          [ make \in get_makes_by_year(db, year) |-> get_models_by_make_year(db, year, make) ] ]

get_makes_and_models(db, current_year) ==
  LET years == first_catalog_year..current_year
      make_models(year) ==
        [ make \in get_makes_by_year(db, year) |-> get_models_by_make_year(db, year, make) ]
  IN  [ year \in { y \in years : DOMAIN make_models(y) # {} } |-> make_models(year) ]

\* listings of several years, makes and models; prices play no part
CatalogPool ==
  << Listing(1989, "Ford", "F150", None, None, None, None, None),
     Listing(1990, "Honda", "Civic", None, None, None, None, Some(300000)),
     Listing(2015, "Toyota", "Camry", None, None, None, None, Some(1600000)),
     Listing(2015, "Toyota", "Corolla", None, None, None, None, None),
     Listing(2015, "Honda", "Civic", None, None, None, None, Some(1400000)),
     Listing(2026, "Kia", "Rio", None, None, None, None, Some(2000000)),
     Listing(2027, "Kia", "Rio", None, None, None, None, Some(2100000)) >>

\* the rows of the pool whose positions are in S, in the pool's order
StoreOf(S) ==
  LET keep(i) == i \in S
      idx == SelectSeq([ i \in 1..Len(CatalogPool) |-> i ], keep)
  IN  [ k \in 1..Len(idx) |-> CatalogPool[idx[k]] ]

CatalogStores == { StoreOf(S) : S \in SUBSET (1..Len(CatalogPool)) }

(***************************************************************************)
(* Bounded data: the texts, the listings and the requests drawn from.      *)
(***************************************************************************)
LE == <<"L","E">>

LX == <<"L","X">>

Limited == <<"L","i","m","i","t","e","d">>

Custom == <<"C","u","s","t","o","m">>

Black == <<"B","l","a","c","k">>

Red == <<"R","e","d">>

CA == <<"C","A">>

TX == <<"T","X">>

\* a 2015 Toyota Camry listing; the price is given in dollars
Camry(mileage, trim, color, state, dollars) ==
  Listing(2015, "Toyota", "Camry", Some(trim), Some(color), Some(state),
          mileage, Some(dollars * 100))

SeedVaried ==
  << Camry(Some(60000),  LE,      Black, CA, 18000),
     Camry(Some(70000),  LE,      Red,   TX, 17000),
     Camry(Some(80000),  Limited, Black, CA, 19000),
     Camry(Some(85000),  LE,      Black, TX, 16000),
     Camry(Some(90000),  Custom,  Red,   CA, 15500),
     Camry(Some(100000), LE,      Black, TX, 15000),
     Camry(Some(110000), Limited, Red,   CA, 16500),
     Camry(Some(120000), LE,      Black, TX, 14000),
     Camry(Some(130000), LX,      Black, CA, 13000),
     Camry(Some(150000), LE,      Black, CA, 12000) >>

\* nine listings: one short of the trainer's minimum
SeedFew == SubSeq(SeedVaried, 1, 9)

\* ten listings with the same trim, colour and state
SeedConstant ==
  [ i \in 1..10 |-> Camry(Some(60000 + 10000 * i), LE, Black, CA, 18000 - 500 * i) ]

\* ten listings, six of them without a mileage
SeedNullMileage ==
  [ i \in 1..10 |->
      Camry(IF i <= 4 THEN Some(70000 + 5000 * i) ELSE None,
            IF i % 2 = 0 THEN LE ELSE Limited, Black, CA, 16000) ]

\* listings whose prices are 0 or NULL
SeedUnpriced ==
  << Camry(Some(80000), LE, Black, CA, 0),
     Camry(Some(90000), LE, Black, CA, 0),
     [ Camry(Some(85000), LE, Black, CA, 0) EXCEPT !.listing_price = None ] >>

StoreSeeds == { <<>>, SeedFew, SeedVaried, SeedConstant, SeedNullMileage, SeedUnpriced }

\* rows the import pipeline may add while the service runs
ImportChoices == { Camry(Some(95000), Limited, Red, TX, 15800) }

\* the library's answer to a fit (see train_model_for_vehicle)
FitWeights == [ mileage |-> -10, trim |-> 50000, color |-> 20000, state |-> 30000 ]

FitUsual == [ raises |-> FALSE, intercept |-> 2412345, weights |-> FitWeights,
              rmse |-> Some(60000) ]

FitOutcomes ==
  { FitUsual,
    [ FitUsual EXCEPT !.raises = TRUE ],    \* an exception inside the try
    [ FitUsual EXCEPT !.rmse = None ],      \* _calculate_rmse caught an exception
    [ FitUsual EXCEPT !.intercept = 0 ],    \* predictions at or below zero
    [ FitUsual EXCEPT !.intercept = 2000000, !.rmse = Some(75000) ] }  \* a larger error

CurrentYears == { 2025, 2026 }

\* the states the service starts in: every seed in 2026 with the usual fit,
\* the ten varied listings with every fit, and with the other year
Scenarios ==
  { [ store |-> s, current_year |-> 2026, fit |-> FitUsual ] : s \in StoreSeeds }
  \cup { [ store |-> SeedVaried, current_year |-> 2026, fit |-> f ] : f \in FitOutcomes }
  \cup { [ store |-> SeedVaried, current_year |-> y, fit |-> FitUsual ] : y \in CurrentYears }

RequestChoices ==
  { Request(2015, "Toyota", "Camry", None, None, None, None),
    Request(2015, "Toyota", "Camry", Some(80000), None, None, None),
    Request(2015, "Toyota", "Camry", Some(150000), None, None, None),
    Request(2015, "Toyota", "Camry", Some(80000), Some(LE), None, None),
    Request(2015, "Toyota", "Camry", None, Some(Custom), None, None),
    Request(2015, "Toyota", "Camry", None, Some(LE), None, None),
    Request(2015, "Toyota", "Camry", Some(0), Some(<<>>), None, None),
    Request(2015, "Toyota", "Camry", Some(80000), Some(LE), Some(Black), Some(CA)),
    Request(2015, "Toyota", "Camry_mileage", None, Some(LE), None, None) }

MaxRequests == 2

\* steps of the environment (rows imported, cache entries timed out)
MaxEnvSteps == 1

Procs == { 1, 2 }

(***************************************************************************)
(* State.                                                                  *)
(***************************************************************************)
VARIABLES
  store,         \* the vehicles table: a sequence of listings
  current_year,  \* datetime.now().year
  fit,           \* the library's answer to a fit
  model_cache,   \* cache entries "regression_...": key -> (model, scaler, used, rmse)
  memo,          \* cache entries of @cache.memoize: arguments -> result
  pc,            \* where each request handler stands
  req,           \* its arguments
  loc,           \* its locals: model_key and the tuple unpacked at lines 43 and 48
  res,           \* what it returned or raised
  served,        \* calls made so far
  imports,       \* rows imported so far
  expiries,      \* cache entries that have timed out so far
  train_log,     \* per key: calls of the trainer, and calls that produced a model
  pin,           \* pure-function checks: the arguments applied
  pout           \* pure-function checks: the value returned

vars == << store, current_year, fit, model_cache, memo, pc, req, loc, res,
           served, imports, expiries, train_log, pin, pout >>

EmptyMap == [ x \in {} |-> 0 ]

NoTuple == [ arity |-> 4, regression_model |-> None, used_features |-> <<>>, rmse |-> None ]

NoLocals == [ model_key |-> "", tuple |-> NoTuple, hit |-> FALSE, trained |-> FALSE,
              memo_hit |-> FALSE ]

NoRequest == Request(0, "", "", None, None, None, None)

NoPure == [ fn |-> "none" ]

Init ==
  /\ \E sc \in Scenarios :
       /\ store = sc.store
       /\ current_year = sc.current_year
       /\ fit = sc.fit
  /\ model_cache = EmptyMap
  /\ memo = EmptyMap
  /\ pc = [ p \in Procs |-> "idle" ]
  /\ req = [ p \in Procs |-> NoRequest ]
  /\ loc = [ p \in Procs |-> NoLocals ]
  /\ res = [ p \in Procs |-> NoResult ]
  /\ served = 0
  /\ imports = 0
  /\ expiries = 0
  /\ train_log = EmptyMap
  /\ pin = NoPure
  /\ pout = NoPure

Remove(f, k) == [ x \in (DOMAIN f) \ {k} |-> f[x] ]

Put(f, k, v) == [ x \in (DOMAIN f) \cup {k} |-> IF x = k THEN v ELSE f[x] ]

(***************************************************************************)
(* calculate_market_value, step by step.  Each step is one access to the   *)
(* cache or the store together with the local code that follows it.        *)
(***************************************************************************)
\* the memoize wrapper: a stored result is returned without running the body
Call(p, r) ==
  /\ pc[p] \in { "idle", "done" }
  /\ served < MaxRequests
  /\ served' = served + 1
  /\ req' = [ req EXCEPT ![p] = r ]
  /\ IF r \in DOMAIN memo
     THEN /\ res' = [ res EXCEPT ![p] = memo[r] ]
          /\ loc' = [ loc EXCEPT ![p] = [ NoLocals EXCEPT !.memo_hit = TRUE ] ]
          /\ pc' = [ pc EXCEPT ![p] = "done" ]
     ELSE /\ res' = [ res EXCEPT ![p] = NoResult ]
          /\ loc' = [ loc EXCEPT ![p] = NoLocals ]
          /\ pc' = [ pc EXCEPT ![p] = "lookup" ]
  /\ UNCHANGED << store, current_year, fit, model_cache, memo, imports,
                  expiries, train_log, pin, pout >>

\* line 47 without `and requested_features`
Lookup_NoFeatureGuard(p) ==
  /\ pc[p] = "lookup"
  /\ LET key == model_key(req[p])
         found == key \in DOMAIN model_cache
         t == IF found THEN model_cache[key] ELSE NoTuple
     IN  /\ loc' = [ loc EXCEPT ![p] = [ NoLocals EXCEPT !.model_key = key,
                                                         !.tuple = t, !.hit = found ] ]
         /\ pc' = [ pc EXCEPT ![p] =
                      IF t.regression_model = None THEN "train"
                      ELSE IF t.used_features # <<>> THEN "predict"
                      ELSE "fallback" ]
  /\ UNCHANGED << store, current_year, fit, model_cache, memo, req, res, served,
                  imports, expiries, train_log, pin, pout >>

\* lines 29-47: build the key, cache.get, unpack, decide
Lookup(p) ==
  /\ pc[p] = "lookup"
  /\ LET key == model_key(req[p])
         found == key \in DOMAIN model_cache
         t == IF found THEN model_cache[key] ELSE NoTuple
     IN  /\ loc' = [ loc EXCEPT ![p] = [ NoLocals EXCEPT !.model_key = key,
                                                         !.tuple = t, !.hit = found ] ]
         /\ pc' = [ pc EXCEPT ![p] =
                      IF t.regression_model = None /\ requested_features(req[p]) # <<>>
                      THEN "train"
                      ELSE IF t.regression_model # None /\ t.used_features # <<>>
                      THEN "predict"
                      ELSE "fallback" ]
  /\ UNCHANGED << store, current_year, fit, model_cache, memo, req, res, served,
                  imports, expiries, train_log, pin, pout >>

\* the record of the trainer's calls: per key, the calls, those that returned
\* a model, and those whose return value could not be unpacked
LogTraining(log, key, t) ==
  LET old == IF key \in DOMAIN log THEN log[key]
             ELSE [ calls |-> 0, models |-> 0, raised |-> 0 ]
  IN  Put(log, key, [ calls  |-> old.calls + 1,
                      models |-> old.models + (IF t.regression_model # None THEN 1 ELSE 0),
                      raised |-> old.raised + (IF t.arity # 4 THEN 1 ELSE 0) ])

\* the training held back while another request trains or writes its model
Train_Exclusive(p) ==
  /\ \A q \in Procs \ {p} : pc[q] \notin { "train", "cache_set" }
  /\ pc[p] = "train"
  /\ \E t \in { train_model_for_vehicle(store, req[p].year, req[p].make, req[p].model,
                                        requested_features(req[p]), fit) } :
         /\ train_log' = LogTraining(train_log, loc[p].model_key, t)
         /\ res' = IF t.arity # 4 THEN [ res EXCEPT ![p] = ErrorResult("ValueError") ] ELSE res
         /\ loc' = IF t.arity # 4 THEN [ loc EXCEPT ![p].trained = TRUE ]
                   ELSE [ loc EXCEPT ![p].trained = TRUE, ![p].tuple = t ]
         /\ pc' = [ pc EXCEPT ![p] = IF t.arity # 4 THEN "done"
                                      ELSE IF t.regression_model # None THEN "cache_set"
                                      ELSE "fallback" ]
  /\ UNCHANGED << store, current_year, fit, model_cache, memo, req, served,
                  imports, expiries, pin, pout >>

\* lines 48-54: train and unpack; a 3-tuple cannot be unpacked into 4 names
Train(p) ==
  /\ pc[p] = "train"
  /\ \E t \in { train_model_for_vehicle(store, req[p].year, req[p].make, req[p].model,
                                        requested_features(req[p]), fit) } :
         /\ train_log' = LogTraining(train_log, loc[p].model_key, t)
         /\ IF t.arity # 4
            THEN /\ res' = [ res EXCEPT ![p] = ErrorResult("ValueError") ]
                 /\ loc' = [ loc EXCEPT ![p].trained = TRUE ]
                 /\ pc' = [ pc EXCEPT ![p] = "done" ]
            ELSE /\ res' = res
                 /\ loc' = [ loc EXCEPT ![p].trained = TRUE, ![p].tuple = t ]
                 /\ pc' = [ pc EXCEPT ![p] =
                              IF t.regression_model # None THEN "cache_set" ELSE "fallback" ]
  /\ UNCHANGED << store, current_year, fit, model_cache, memo, req, served,
                  imports, expiries, pin, pout >>

\* lines 53-54 without the cache.set
CacheSet_Forgets(p) ==
  /\ pc[p] = "cache_set"
  /\ pc' = [ pc EXCEPT ![p] = "predict" ]
  /\ UNCHANGED << store, current_year, fit, model_cache, memo, req, loc, res, served,
                  imports, expiries, train_log, pin, pout >>

\* line 54: cache.set(model_key, (regression_model, scaler, used_features, rmse))
CacheSet(p) ==
  /\ pc[p] = "cache_set"
  /\ model_cache' = Put(model_cache, loc[p].model_key, loc[p].tuple)
  /\ pc' = [ pc EXCEPT ![p] =
               IF loc[p].tuple.used_features # <<>> THEN "predict" ELSE "fallback" ]
  /\ UNCHANGED << store, current_year, fit, memo, req, loc, res, served, imports,
                  expiries, train_log, pin, pout >>

\* lines 56-107
Predict(p) ==
  /\ pc[p] = "predict"
  /\ \E result \in { regression_result(store, req[p], loc[p].tuple, served) } :
         /\ res' = [ res EXCEPT ![p] = result ]
         /\ pc' = [ pc EXCEPT ![p] = IF result.status = "ok" THEN "return" ELSE "done" ]
  /\ UNCHANGED << store, current_year, fit, model_cache, memo, req, loc, served,
                  imports, expiries, train_log, pin, pout >>

\* lines 109-111
Fallback(p) ==
  /\ pc[p] = "fallback"
  /\ res' = [ res EXCEPT ![p] = get_fallback_estimate(store, req[p], current_year, served) ]
  /\ pc' = [ pc EXCEPT ![p] = "return" ]
  /\ UNCHANGED << store, current_year, fit, model_cache, memo, req, loc, served,
                  imports, expiries, train_log, pin, pout >>

\* the memoize wrapper stores what the body returned
Return(p) ==
  /\ pc[p] = "return"
  /\ memo' = Put(memo, req[p], res[p])
  /\ pc' = [ pc EXCEPT ![p] = "done" ]
  /\ UNCHANGED << store, current_year, fit, model_cache, req, loc, res, served,
                  imports, expiries, train_log, pin, pout >>

(***************************************************************************)
(* The environment: the import pipeline adds a row; a cache entry reaches  *)
(* its timeout (CACHE_DEFAULT_TIMEOUT, memoize(timeout=3600)).             *)
(***************************************************************************)
Import(l) ==
  /\ imports + expiries < MaxEnvSteps
  /\ imports' = imports + 1
  /\ store' = Append(store, l)
  /\ UNCHANGED << current_year, fit, model_cache, memo, pc, req, loc, res, served,
                  expiries, train_log, pin, pout >>

ExpireModel(k) ==
  /\ k \in DOMAIN model_cache
  /\ imports + expiries < MaxEnvSteps
  /\ expiries' = expiries + 1
  /\ model_cache' = Remove(model_cache, k)
  /\ UNCHANGED << store, current_year, fit, memo, pc, req, loc, res, served,
                  imports, train_log, pin, pout >>

ExpireMemo(r) ==
  /\ r \in DOMAIN memo
  /\ imports + expiries < MaxEnvSteps
  /\ expiries' = expiries + 1
  /\ memo' = Remove(memo, r)
  /\ UNCHANGED << store, current_year, fit, model_cache, pc, req, loc, res, served,
                  imports, train_log, pin, pout >>

\* requests served one after the other: a single handler runs at a time
Worker == CHOOSE p \in Procs : \A q \in Procs : p <= q

Next ==
  \/ \E r \in RequestChoices : Call(Worker, r)
  \/ Lookup(Worker)
  \/ Train(Worker)
  \/ CacheSet(Worker)
  \/ Predict(Worker)
  \/ Fallback(Worker)
  \/ Return(Worker)
  \/ \E l \in ImportChoices : Import(l)
  \/ \E k \in DOMAIN model_cache : ExpireModel(k)
  \/ \E r \in DOMAIN memo : ExpireMemo(r)

Spec == Init /\ [][Next]_vars

(***************************************************************************)
(* Requests served concurrently (specification SpecConcurrent): both       *)
(* handlers run, their steps interleaved in every order.                   *)
(***************************************************************************)
ConcurrentScenarios ==
  { sc \in Scenarios :
      /\ sc.current_year = 2026
      /\ \/ sc.store \in { SeedVaried, SeedNullMileage, SeedFew } /\ sc.fit = FitUsual
         \/ sc.store = SeedVaried /\ sc.fit.raises }

\* two requests with one cache key: the same vehicle and feature set, with
\* different mileages
ConcurrentRequests ==
  { r \in RequestChoices :
      /\ r.model = "Camry"
      /\ r.mileage # None
      /\ r.trim = None }

InitConcurrent ==
  /\ Init
  /\ \E sc \in ConcurrentScenarios :
       /\ store = sc.store
       /\ current_year = sc.current_year
       /\ fit = sc.fit

Step(p) ==
  \/ Lookup(p)
  \/ Train(p)
  \/ CacheSet(p)
  \/ Predict(p)
  \/ Fallback(p)
  \/ Return(p)

NextConcurrent ==
  \/ \E p \in Procs : \E r \in ConcurrentRequests : Call(p, r)
  \/ \E p \in Procs : Step(p)
  \/ \E l \in ImportChoices : Import(l)

SpecConcurrent == InitConcurrent /\ [][NextConcurrent]_vars

(***************************************************************************)
(* The heuristic adjusters applied to drawn arguments (specification       *)
(* SpecPure): pin holds the arguments, pout the values returned.           *)
(***************************************************************************)
Touring == <<"T","o","u","r","i","n","g">>

XLT == <<"X","L","T">>

PureTrims == { Limited, LX, LE, Custom, Touring, XLT, <<>> }

\* 100, 16000 and 20000 dollars
PurePrices == { 10000, 1600000, 2000000 }

PureYear == 2015

PureCurrentYears == { 2024, 2025, 2026 }

\* mileages around the expected mileage of each current year
PureOffsets == { -1000, -1, 0, 1, 2, 460, 465, 466, 467, 1000 }

PureMileages ==
  { (cy - PureYear) * avg_miles_per_year + o : cy \in PureCurrentYears, o \in PureOffsets }

InitPure ==
  /\ store = <<>>
  /\ current_year \in PureCurrentYears
  /\ fit = FitUsual
  /\ model_cache = EmptyMap
  /\ memo = EmptyMap
  /\ pc = [ p \in Procs |-> "idle" ]
  /\ req = [ p \in Procs |-> NoRequest ]
  /\ loc = [ p \in Procs |-> NoLocals ]
  /\ res = [ p \in Procs |-> NoResult ]
  /\ served = 0
  /\ imports = 0
  /\ expiries = 0
  /\ train_log = EmptyMap
  /\ pin = NoPure
  /\ pout = NoPure

ApplyTrim(price, trim) ==
  /\ pin' = [ fn |-> "adjust_for_trim", price |-> price, trim |-> trim ]
  /\ pout' = [ fn |-> "adjust_for_trim", value |-> adjust_for_trim(price, trim) ]
  /\ UNCHANGED << store, current_year, fit, model_cache, memo, pc, req, loc, res,
                  served, imports, expiries, train_log >>

\* two calls with the same base price and year, at mileage < other_mileage
ApplyMileage(base_price, mileage, other_mileage) ==
  /\ mileage < other_mileage
  /\ pin' = [ fn |-> "adjust_for_mileage", base_price |-> base_price, year |-> PureYear,
              mileage |-> mileage, other_mileage |-> other_mileage ]
  /\ pout' = [ fn |-> "adjust_for_mileage",
               value |-> adjust_for_mileage(base_price, mileage, PureYear, current_year),
               other_value |-> adjust_for_mileage(base_price, other_mileage, PureYear,
                                                  current_year) ]
  /\ UNCHANGED << store, current_year, fit, model_cache, memo, pc, req, loc, res,
                  served, imports, expiries, train_log >>

ApplyMakesAndModels(db) ==
  /\ pin' = [ fn |-> "get_makes_and_models", store |-> db ]
  /\ pout' = [ fn |-> "get_makes_and_models", value |-> get_makes_and_models(db, current_year) ]
  /\ UNCHANGED << store, current_year, fit, model_cache, memo, pc, req, loc, res,
                  served, imports, expiries, train_log >>

NextPure ==
  \/ \E db \in CatalogStores : ApplyMakesAndModels(db)
  \/ \E price \in PurePrices, trim \in PureTrims : ApplyTrim(price, trim)
  \/ \E base_price \in PurePrices, m1 \in PureMileages, m2 \in PureMileages :
       ApplyMileage(base_price, m1, m2)

SpecPure == InitPure /\ [][NextPure]_vars

(***************************************************************************)
(* The controller: GET /search (specification SpecSearch).  A query         *)
(* parameter is None when absent and Some(text) when given; year and       *)
(* mileage arrive as texts (sequences of characters).  The handler runs to *)
(* its response, the call of calculate_market_value included; pin holds    *)
(* the query and pout the response.                                        *)
(***************************************************************************)
Space == " "

RECURSIVE StripLeft(_)
StripLeft(text) ==
  IF text # <<>> /\ Head(text) = Space THEN StripLeft(Tail(text)) ELSE text

RECURSIVE StripRight(_)
StripRight(text) ==
  IF text # <<>> /\ text[Len(text)] = Space
  THEN StripRight(SubSeq(text, 1, Len(text) - 1))
  ELSE text

DigitOf(c) == (CHOOSE i \in 1..10 : Digits[i] = c) - 1

RECURSIVE DigitsValue(_)
DigitsValue(text) ==
  IF text = <<>> THEN 0
  ELSE DigitsValue(SubSeq(text, 1, Len(text) - 1)) * 10 + DigitOf(text[Len(text)])

\* int(text): Some(n), or None for the ValueError.  Blanks around the number
\* and one sign are accepted; the texts drawn hold no "_" and ASCII digits only
int_of_text(text) ==
  LET stripped == StripRight(StripLeft(text))
      signed   == stripped # <<>> /\ Head(stripped) \in { "-", "+" }
      body     == IF signed THEN Tail(stripped) ELSE stripped
  IN  IF body = <<>> \/ \E i \in 1..Len(body) : body[i] \notin Range(Digits)
      THEN None
      ELSE IF signed /\ Head(stripped) = "-" THEN Some(-DigitsValue(body))
      ELSE Some(DigitsValue(body))

Query(year, make, model, mileage, trim, color, dealer_state) ==
  [ year |-> year, make |-> make, model |-> model, mileage |-> mileage,
    trim |-> trim, color |-> color, dealer_state |-> dealer_state ]

\* `not all([year, make, model])`: an absent or empty parameter is falsy
missing_required(q) ==
  \/ q.year = None \/ Val(q.year) = <<>>
  \/ q.make = None \/ Val(q.make) = ""
  \/ q.model = None \/ Val(q.model) = ""

\* `if mileage:` an absent or empty mileage is not converted
converts_mileage(q) == q.mileage # None /\ Val(q.mileage) # <<>>

\* the try block of lines 60-65
conversion_fails(q) ==
  \/ int_of_text(Val(q.year)) = None
  \/ converts_mileage(q) /\ int_of_text(Val(q.mileage)) = None

\* mileage reaches the service as the text it arrived as (the empty text)
mileage_is_text(q) == q.mileage # None /\ ~converts_mileage(q)

\* the arguments of the call at lines 67-70; an empty mileage text is falsy
\* like 0 and is held as 0, flagged by mileage_is_text
service_arguments(q) ==
  Request(Val(int_of_text(Val(q.year))), Val(q.make), Val(q.model),
          IF q.mileage = None THEN None
          ELSE IF converts_mileage(q) THEN int_of_text(Val(q.mileage))
          ELSE Some(0),
          q.trim, q.color, q.dealer_state)

\* lines 39-52 for a call whose result is not memoized: the tuple read from
\* the cache or returned by the trainer
service_tuple(db, cache, r, outcome) ==
  LET key    == model_key(r)
      cached == IF key \in DOMAIN cache THEN cache[key] ELSE NoTuple
  IN  IF cached.regression_model = None /\ requested_features(r) # <<>>
      THEN [ trained |-> TRUE,
             t |-> train_model_for_vehicle(db, r.year, r.make, r.model,
                                           requested_features(r), outcome) ]
      ELSE [ trained |-> FALSE, t |-> cached ]

\* lines 48-111: unpack, predict or fall back
service_result(db, r, t, text_mileage, cy, date) ==
  IF t.arity # 4 THEN ErrorResult("ValueError")
  ELSE IF t.regression_model # None /\ t.used_features # <<>>
  THEN IF text_mileage /\ "mileage" \in Range(t.used_features)
       THEN ErrorResult("ValueError")  \* a text where a number is due
       ELSE regression_result(db, r, t, date)
  ELSE get_fallback_estimate(db, r, cy, date)

\* the result and the two caches after the body ran: cache.set for a model
\* just trained, and the memoized result of a call that returned
after_body(cache, stored, r, got, result) ==
  [ result |-> result,
    cache  |-> IF got.trained /\ got.t.arity = 4 /\ got.t.regression_model # None
               THEN Put(cache, model_key(r), got.t) ELSE cache,
    stored |-> IF result.status = "ok" THEN Put(stored, r, result) ELSE stored ]

run_body(db, cache, stored, r, text_mileage, cy, date, got) ==
  after_body(cache, stored, r, got, service_result(db, r, got.t, text_mileage, cy, date))

\* calculate_market_value run to completion on the store db with the model
\* cache and the memoized results as they stand
run_calculate_market_value(db, cache, stored, r, text_mileage, cy, outcome, date) ==
  IF r \in DOMAIN stored
  THEN [ result |-> stored[r], cache |-> cache, stored |-> stored ]
  ELSE run_body(db, cache, stored, r, text_mileage, cy, date,
                service_tuple(db, cache, r, outcome))

NoResponse == [ fn |-> "none" ]

Response(status, body, called, result) ==
  [ fn |-> "search", status |-> status, body |-> body, called |-> called,
    result |-> result ]

\* lines 67-73: the response to what the service returned or raised
respond(run) ==
  [ response |-> IF run.result.status = "ok"
                 THEN Response(200, "result", TRUE, run.result)
                 ELSE Response(500, run.result.error, TRUE, run.result),
    cache |-> run.cache, stored |-> run.stored ]

\* lines 49-73
search(db, cache, stored, q, cy, outcome, date) ==
  IF missing_required(q)
  THEN [ response |-> Response(400, "Missing required parameters (year, make, model)",
                               FALSE, NoResult),
         cache |-> cache, stored |-> stored ]
  ELSE IF conversion_fails(q)
  THEN [ response |-> Response(400, "Year and mileage must be integers", FALSE, NoResult),
         cache |-> cache, stored |-> stored ]
  ELSE respond(run_calculate_market_value(db, cache, stored, service_arguments(q),
                                          mileage_is_text(q), cy, outcome, date))

Y2015 == <<"2","0","1","5">>

M80000 == <<"8","0","0","0","0">>

QueryChoices ==
  { Query(None, None, None, None, None, None, None),
    Query(None, Some("Toyota"), Some("Camry"), None, None, None, None),
    Query(Some(Y2015), Some("Toyota"), Some(""), None, None, None, None),
    Query(Some(<<>>), Some("Toyota"), Some("Camry"), Some(M80000), None, None, None),
    Query(Some(<<"i","n","v","a","l","i","d">>), Some("Toyota"), Some("Camry"),
          None, None, None, None),
    Query(Some(Y2015), Some("Toyota"), Some("Camry"), Some(<<"1","2",".","5">>),
          None, None, None),
    Query(Some(Y2015), None, Some("Camry"), Some(<<"x">>), None, None, None),
    Query(Some(Y2015), Some("Toyota"), Some("Camry"), None, None, None, None),
    Query(Some(Y2015), Some("Toyota"), Some("Camry"), Some(M80000), None, None, None),
    Query(Some(<<" ">> \o Y2015), Some("Toyota"), Some("Camry"),
          Some(<<"+">> \o M80000 \o <<" ">>), Some(LE), None, None),
    Query(Some(Y2015), Some("Toyota"), Some("Camry"), Some(<<>>), None, None, None),
    Query(Some(Y2015), Some("Toyota"), Some("Camry"), Some(<<>>), Some(LE), Some(<<>>),
          Some(<<>>)) }

Search(q) ==
  /\ served < MaxRequests
  /\ \E handled \in { search(store, model_cache, memo, q, current_year, fit, served + 1) } :
         /\ pin' = [ fn |-> "search", query |-> q ]
         /\ pout' = handled.response
         /\ model_cache' = handled.cache
         /\ memo' = handled.stored
  /\ served' = served + 1
  /\ UNCHANGED << store, current_year, fit, pc, req, loc, res, imports, expiries,
                  train_log >>

NextSearch ==
  \/ \E q \in QueryChoices : Search(q)
  \/ \E l \in ImportChoices : Import(l)

SpecSearch == Init /\ [][NextSearch]_vars

(***************************************************************************)
(* Properties of the valuation requests (specification Spec).              *)
(***************************************************************************)
Finished(p) == pc[p] = "done"

HasFeature(r) == requested_features(r) # <<>>

FallbackMethods == { "adjusted_average", "no_data" }

\* C1: a request that supplies at least one optional feature and for which the
\* trainer produced no model raises no error and returns the fallback result
\* (method "adjusted_average" or "no_data").
C1_NoModelFallsBack ==
  \A p \in Procs :
    ( /\ Finished(p)
      /\ HasFeature(req[p])
      /\ loc[p].trained
      /\ loc[p].tuple.regression_model = None )
    => ( res[p].status = "ok" /\ res[p].method \in FallbackMethods )

NoDataResult(r) ==
  /\ r.status = "ok"
  /\ r.estimate = NAString
  /\ r.method = "no_data"
  /\ r.confidence = "low"
  /\ r.listings = <<>>

\* C2: whenever the store held no listing matching the request's year, make,
\* model and supplied filters, the request (with or without optional features)
\* returns exactly estimate "N/A", method "no_data", confidence "low" and an
\* empty listings list, and raises no error.
C2_NoListingsNoData ==
  \A p \in Procs :
    ( /\ Finished(p)
      /\ imports = 0
      /\ MatchingIds(store, fallback_filters(req[p])) = {} )
    => NoDataResult(res[p])

\* C3 as stated: with no cache entry evicted, the trainer is invoked at most
\* once for each key (checked on the keys for which no call of the trainer
\* raised), and a request that finds a cached model does not train.
C3_AtMostOneTraining ==
  expiries = 0 =>
    /\ \A k \in DOMAIN train_log : train_log[k].raised = 0 => train_log[k].calls <= 1
    /\ \A p \in Procs : ~(loc[p].hit /\ loc[p].trained)

\* C3 as amended: with no cache entry evicted, the trainer returns a model at
\* most once for each key, the model is then the cached one, and a request that
\* finds a cached model for its key takes it and does not train.  (A training
\* that returns no model stores nothing, and the next request for the key
\* trains again.)
C3_AtMostOneModel ==
  expiries = 0 =>
    /\ \A k \in DOMAIN train_log : train_log[k].models <= 1
    /\ \A p \in Procs :
         /\ ~(loc[p].hit /\ loc[p].trained)
         /\ loc[p].hit =>
              /\ loc[p].model_key \in DOMAIN model_cache
              /\ loc[p].tuple = model_cache[loc[p].model_key]
              /\ train_log[loc[p].model_key].models = 1

C3_Witness ==
  /\ expiries = 0
  /\ Finished(Worker)
  /\ loc[Worker].hit
  /\ res[Worker].status = "ok"
  /\ train_log[loc[Worker].model_key].calls = 1

\* C4: a request that supplies none of mileage, trim, color, state never
\* invokes the trainer and never takes a model from the cache; it goes to the
\* fallback, and when an average price exists its estimate is the formatted,
\* unadjusted average price.
C4_NoFeaturesFallback ==
  \A p \in Procs :
    ( pc[p] # "idle" /\ ~HasFeature(req[p]) ) =>
      /\ ~loc[p].trained
      /\ ~loc[p].hit
      /\ pc[p] \notin { "train", "cache_set", "predict" }
      /\ train_log = EmptyMap \/ model_key(req[p]) \notin DOMAIN train_log
      /\ model_key(req[p]) \notin DOMAIN model_cache
      /\ pc[p] \in { "return", "done" } =>
           /\ res[p].status = "ok"
           /\ res[p].path = "fallback"
           /\ res[p].seen = Len(store) =>
                LET avg == get_average_price_with_filters(
                             store, Filters(req[p].year, req[p].make, req[p].model,
                                            None, None, None, None))
                IN  /\ avg # None => /\ res[p].estimate = format_price(avg)
                                     /\ res[p].price = avg
                                     /\ res[p].method = "adjusted_average"
                    /\ avg = None => res[p].method = "no_data"

\* an average of 16000 dollars gives "$16,000"
C4_Witness ==
  /\ Finished(Worker)
  /\ ~HasFeature(req[Worker])
  /\ res[Worker].original_price = Some(1600000)
  /\ res[Worker].estimate = <<"$","1","6",",","0","0","0">>

(***************************************************************************)
(* Reading an estimate back: the text after "$" is an optional "-" and     *)
(* digits in groups of three separated by commas.                          *)
(***************************************************************************)
IsDigit(c) == \E i \in 1..10 : Digits[i] = c

DigitValue(c) == (CHOOSE i \in 1..10 : Digits[i] = c) - 1

CommaGrouped(body) ==
  /\ Len(body) >= 1
  /\ body[1] # ","
  /\ \A i \in 1..Len(body) :
       LET fromRight == Len(body) - i + 1
       IN  IF fromRight % 4 = 0 THEN body[i] = "," ELSE IsDigit(body[i])
  /\ Len(body) > 1 => body[1] # "0"

RECURSIVE AmountOf(_)
AmountOf(body) ==
  IF body = <<>> THEN 0
  ELSE LET init == SubSeq(body, 1, Len(body) - 1)
           last == body[Len(body)]
       IN  IF last = "," THEN AmountOf(init) ELSE AmountOf(init) * 10 + DigitValue(last)

IsCurrency(estimate) ==
  /\ Len(estimate) >= 2
  /\ estimate[1] = "$"
  /\ CommaGrouped(IF estimate[2] = "-" THEN SubSeq(estimate, 3, Len(estimate))
                  ELSE Tail(estimate))

\* the amount in dollars
EstimateAmount(estimate) ==
  IF estimate[2] = "-" THEN -AmountOf(SubSeq(estimate, 3, Len(estimate)))
  ELSE AmountOf(Tail(estimate))

\* the estimate renders the multiple of 100 dollars nearest to price (cents)
NearestHundred(estimate, price) ==
  /\ IsCurrency(estimate)
  /\ EstimateAmount(estimate) % 100 = 0
  /\ Abs(EstimateAmount(estimate) * 100 - price) <= 5000

PriceSamples ==
  { 0, 1, 4999, 5000, 5001, 15000, 25000, 99999, 1565000, 1568000, 1575000,
    123456700, -1, -3000, -5000, -15000, -800000 }

\* format_price on the sample prices (ties, negative prices, several groups)
FormatSamplesRounded ==
  \A price \in PriceSamples : NearestHundred(format_price(Some(price)), price)

\* C5: in every result of calculate_market_value, on every path, the estimate
\* is "N/A" or a comma-grouped currency string whose amount is the multiple of
\* 100 nearest to the underlying price (at most 50 away); format_price(None)
\* is "N/A".
C5_EstimateRounded ==
  /\ \A p \in Procs :
       res[p].status = "ok" =>
         \/ res[p].estimate = NAString /\ res[p].price = None
         \/ res[p].price # None /\ NearestHundred(res[p].estimate, Val(res[p].price))
  /\ FormatSamplesRounded
  /\ format_price(None) = NAString

\* a regression estimate formatted from a price that is no multiple of 100
C5_Witness ==
  /\ Finished(Worker)
  /\ res[Worker].status = "ok"
  /\ res[Worker].path = "regression"
  /\ res[Worker].price # None
  /\ Val(res[Worker].price) % 10000 # 0
  /\ res[Worker].estimate # NAString

\* C6 as stated: the method is "adjusted_average", "no_data" or
\* "regression(<features>)" over the retained feature names.
C6_MethodNoSpace ==
  \A p \in Procs :
    res[p].status = "ok" =>
      \/ res[p].method \in FallbackMethods
      \/ res[p].method = "regression(" \o JoinWith(",", res[p].features_used) \o ")"
      \/ res[p].method = "regression(" \o JoinWith(", ", res[p].features_used) \o ")"

\* C6 as amended: the method is "adjusted_average", "no_data" or
\* "regression (<features>)", with a space before the parenthesis and the
\* retained feature names joined by ", "; a result whose only retained feature
\* is mileage has method "regression (mileage)".
C6_Method ==
  \A p \in Procs :
    res[p].status = "ok" =>
      /\ res[p].path = "fallback" => res[p].method \in FallbackMethods
      /\ res[p].path = "regression" =>
           /\ res[p].method = "regression (" \o JoinWith(", ", res[p].features_used) \o ")"
           /\ res[p].features_used = <<"mileage">> => res[p].method = "regression (mileage)"
           /\ res[p].features_used = <<"mileage", "trim">> =>
                res[p].method = "regression (mileage, trim)"
      /\ res[p].path \in { "fallback", "regression" }

C6_Witness ==
  /\ Finished(Worker)
  /\ res[Worker].status = "ok"
  /\ res[Worker].features_used = <<"mileage">>
  /\ res[Worker].method = "regression (mileage)"

SameKeyInputs(r1, r2) ==
  /\ r1.year = r2.year
  /\ r1.make = r2.make
  /\ r1.model = r2.model
  /\ Range(requested_features(r1)) = Range(requested_features(r2))

\* every order in which the names of a set of features can be listed
Orderings(S) ==
  { seq \in [ 1..Cardinality(S) -> S ] : Range(seq) = S }

\* the key of every two requests that agree on vehicle and feature set, and
\* the joined names of every ordering of a request's features
KeysAgree ==
  /\ \A r1, r2 \in RequestChoices : SameKeyInputs(r1, r2) => model_key(r1) = model_key(r2)
  /\ \A r \in RequestChoices :
       \A seq \in Orderings(Range(requested_features(r))) :
         JoinWith("_", sorted_features(seq))
           = JoinWith("_", sorted_features(requested_features(r)))

\* C7: the model cache key depends only on (year, make, model, set of
\* requested feature names), not on the order of the names nor on the values
\* supplied: two requests for the same vehicle and feature set look up the
\* same key and take the same cached model.
C7_KeyOrderIndependent ==
  /\ KeysAgree
  /\ \A p \in Procs :
       pc[p] \in { "train", "cache_set", "predict", "fallback", "return" } =>
         /\ loc[p].model_key = model_key(req[p])
         /\ ( expiries = 0 /\ loc[p].hit ) =>
              loc[p].tuple = model_cache[loc[p].model_key]
         /\ ( expiries = 0 /\ pc[p] = "train" ) =>
              loc[p].model_key \notin DOMAIN model_cache

\* a request served from the model another request, with another mileage,
\* trained for the same vehicle and feature set
C7_Witness ==
  /\ Finished(Worker)
  /\ loc[Worker].hit
  /\ expiries = 0
  /\ res[Worker].status = "ok"
  /\ \E r \in DOMAIN memo :
       /\ r # req[Worker]
       /\ SameKeyInputs(r, req[Worker])
       /\ memo[r].path = "regression"

(***************************************************************************)
(* Properties of the heuristic adjusters (specification SpecPure).         *)
(***************************************************************************)
\* C8: _adjust_for_trim multiplies by 1.10 for a premium trim ("Limited":
\* 20000 -> 22000.0), by 0.95 for a budget trim ("LX": 20000 -> 19000.0), and
\* leaves the price unchanged for a trim that names neither, such as "Custom"
\* (20000 -> 20000.0).
C8_TrimTable ==
  ( pin.fn = "adjust_for_trim" /\ pin.price = 2000000 ) =>
    /\ pin.trim = Limited => pout.value = 2200000
    /\ pin.trim = LX => pout.value = 1900000
    /\ pin.trim = Custom => pout.value = 2000000

ExpectedMiles == (current_year - PureYear) * 12000

\* C9: for a fixed base price and model year, _adjust_for_mileage is strictly
\* decreasing in mileage above the expected mileage as long as the result is
\* above the floor, strictly increasing as mileage decreases below the
\* expected mileage, and never below 30% of the base price.
C9_MileageMonotone ==
  pin.fn = "adjust_for_mileage" =>
    /\ pout.value * 10 >= pin.base_price * 3
    /\ pout.other_value * 10 >= pin.base_price * 3
    /\ ( pin.mileage >= ExpectedMiles /\ pout.other_value * 10 > pin.base_price * 3 )
         => pout.value > pout.other_value
    /\ pin.other_mileage <= ExpectedMiles => pout.value > pout.other_value

\* above the expected mileage, one result above the floor and one clamped to it
C9_Witness ==
  /\ pin.fn = "adjust_for_mileage"
  /\ pin.mileage > ExpectedMiles
  /\ pout.value > pout.other_value
  /\ pout.other_value * 10 = pin.base_price * 3
  /\ adjust_for_mileage_NoFloor(pin.base_price, pin.other_mileage, PureYear, current_year)
       < pout.other_value

RegressionResults == { p \in Procs : res[p].status = "ok" /\ res[p].path = "regression" }

\* C11: on the regression path, with a known RMSE the confidence is "high" iff
\* RMSE < 5% of the predicted price, "medium" iff 5% <= RMSE < 15% of it, and
\* "low" otherwise; with an unknown RMSE it is "medium" iff at least 10
\* comparable listings were fetched and "low" otherwise.
C11_RegressionConfidence ==
  \A p \in RegressionResults :
    LET rmse  == res[p].rmse
        price == Val(res[p].price)
        c     == res[p].confidence
    IN  /\ c \in { "high", "medium", "low" }
        /\ rmse # None =>
             /\ c = "high" <=> Val(rmse) * 100 < 5 * price
             /\ c = "medium" <=> ( 5 * price <= Val(rmse) * 100 /\ Val(rmse) * 100 < 15 * price )
        /\ rmse = None => ( c = "medium" <=> Len(res[p].listings) >= 10 )

\* an RMSE of exactly 15% of a positive predicted price: "low"
C11_Witness ==
  /\ Finished(Worker)
  /\ Worker \in RegressionResults
  /\ res[Worker].rmse # None
  /\ Val(res[Worker].price) > 0
  /\ Val(res[Worker].rmse) * 100 = 15 * Val(res[Worker].price)
  /\ res[Worker].confidence = "low"

FallbackResults == { p \in Procs : res[p].status = "ok" /\ res[p].path = "fallback" }

\* |adjusted - average| / average * 100 < pct, without the division
DeviationBelow(adjusted, average, pct) ==
  IF average > 0 THEN Abs(adjusted - average) * 100 < pct * average
  ELSE Abs(adjusted - average) * 100 > pct * average

\* the confidence the tiers give n listings, an average and an adjusted price
TierOf(n, adjusted, average) ==
  IF n = 0 THEN "low"
  ELSE IF \/ n >= 10 /\ DeviationBelow(adjusted, average, 10)
          \/ n >= 5 /\ DeviationBelow(adjusted, average, 20)
       THEN "medium"
       ELSE "low"

SampleSizes == { 0, 1, 4, 5, 9, 10, 11, 100 }

SampleAverages == { 1000000, 1600000, -1000000 }

\* adjusted prices at 0%, just under and at 10% and 20%, and beyond
SampleDeviations == { 0, 1, 99999, 100000, 100001, 199999, 200000, 200001, 500000 }

\* the tiers on sample sizes and deviations on both sides of each threshold
FallbackTiersAgree ==
  \A n \in SampleSizes, average \in SampleAverages, d \in SampleDeviations :
    \A adjusted \in { average + d, average - d } :
      determine_fallback_confidence(n, fallback_error_pct(adjusted, average))
        = TierOf(n, adjusted, average)

\* C12: on the fallback path the confidence is never "high"; it is "low" when
\* no comparable listing was returned; otherwise "medium" iff (listings >= 10
\* and deviation < 10%) or (listings >= 5 and deviation < 20%), the deviation
\* being |adjusted - average| / average * 100; and "low" in every other case.
C12_FallbackConfidence ==
  /\ \A p \in FallbackResults :
       /\ res[p].confidence \in { "medium", "low" }
       /\ Len(res[p].listings) = 0 => res[p].confidence = "low"
       /\ res[p].method = "adjusted_average" =>
            res[p].confidence
              = TierOf(Len(res[p].listings), Val(res[p].price), Val(res[p].original_price))
  /\ FallbackTiersAgree

\* ten listings and an adjusted price within 10% of the average, not equal to it
C12_Witness ==
  /\ Finished(Worker)
  /\ Worker \in FallbackResults
  /\ Len(res[Worker].listings) >= 10
  /\ res[Worker].price # res[Worker].original_price
  /\ DeviationBelow(Val(res[Worker].price), Val(res[Worker].original_price), 10)
  /\ res[Worker].confidence = "medium"

\* the model a handler holds after the cache read or the training
HoldsModel(p) ==
  /\ pc[p] \in { "cache_set", "predict", "return", "done" }
  /\ loc[p].tuple.regression_model # None

\* C13: every trained model's retained-feature list is a non-empty subset of
\* the requested features and holds no feature whose encoded value is constant
\* across the training rows; whenever the Predict path runs, every feature it
\* encodes from the request is a retained feature whose value the caller
\* supplied, never an absent value.
C13_RetainedFeatures ==
  \A p \in Procs :
    HoldsModel(p) =>
      LET used == loc[p].tuple.used_features
          rows == Val(loc[p].tuple.regression_model).rows
      IN  /\ used # <<>>
          /\ loc[p].trained =>
               /\ Range(used) \subseteq Range(requested_features(req[p]))
               /\ \A f \in Range(used) :
                    Cardinality({ encoded_value(store[i], f) : i \in rows }) > 1
          /\ \A f \in Range(used) :
               /\ f = "mileage" => req[p].mileage # None
               /\ f = "trim" => req[p].trim # None
               /\ f = "color" => req[p].color # None
               /\ f = "state" => req[p].dealer_state # None

(***************************************************************************)
(* The catalogue of makes and models (SpecPure).                           *)
(***************************************************************************)
ListedYears(db) == { db[i].year : i \in 1..Len(db) }

\* C14: get_makes_and_models returns a mapping whose keys are exactly the
\* years in 1990..current year inclusive that have at least one make in the
\* store; each key maps to a non-empty mapping from every distinct make of
\* that year to that make's models; years with no makes are omitted.
C14_MakesAndModels ==
  pin.fn = "get_makes_and_models" =>
    LET db == pin.store
        catalog == pout.value
    IN  /\ DOMAIN catalog = { y \in ListedYears(db) : 1990 <= y /\ y <= current_year }
        /\ \A y \in DOMAIN catalog :
             /\ DOMAIN catalog[y] # {}
             /\ DOMAIN catalog[y] = { db[i].make : i \in { j \in 1..Len(db) : db[j].year = y } }
             /\ \A mk \in DOMAIN catalog[y] :
                  /\ catalog[y][mk] # {}
                  /\ \A md \in { db[i].model : i \in 1..Len(db) } :
                       md \in catalog[y][mk] <=>
                         \E i \in 1..Len(db) :
                           db[i].year = y /\ db[i].make = mk /\ db[i].model = md

\* listings of 1989, 1990, the current year and the year after it: the first
\* and the last are left out, and a year with two makes lists both
C14_Witness ==
  /\ pin.fn = "get_makes_and_models"
  /\ { 1989, 1990, current_year, current_year + 1 } \subseteq ListedYears(pin.store)
  /\ DOMAIN pout.value = { 1990, 2015, current_year }
  /\ DOMAIN pout.value[2015] = { "Toyota", "Honda" }
  /\ pout.value[2015]["Toyota"] = { "Camry", "Corolla" }

(***************************************************************************)
(* The outcomes of GET /search (SpecSearch).                               *)
(***************************************************************************)
\* a parameter that was not supplied, or supplied empty
Missing(param, empty) == param = None \/ Val(param) = empty

\* C15: every /search request gets exactly one outcome: 400 without the
\* valuation service being called when any of year, make, model is missing or
\* when year or mileage is not an integer; 500 with an error body when the
\* service call raises; 200 with the service's result otherwise.
C15_SearchOutcome ==
  pin.fn = "search" =>
    LET q == pin.query
        missing == Missing(q.year, <<>>) \/ Missing(q.make, "") \/ Missing(q.model, "")
        not_integer ==
          \/ ~Missing(q.year, <<>>) /\ int_of_text(Val(q.year)) = None
          \/ q.mileage # None /\ int_of_text(Val(q.mileage)) = None
    IN  /\ pout.status \in { 200, 400, 500 }
        /\ ( missing \/ not_integer ) => ( pout.status = 400 /\ ~pout.called )
        /\ ~( missing \/ not_integer ) =>
             /\ pout.called
             /\ pout.result.status = "error" => ( pout.status = 500 /\ pout.body # "" )
             /\ pout.result.status = "ok" => ( pout.status = 200 /\ pout.body = "result" )

(***************************************************************************)
(* The trainer's conditions (Spec).                                        *)
(***************************************************************************)
\* listings of exactly the request's year, make and model that bear a price
PriceBearing(db, r) ==
  { i \in 1..Len(db) :
      /\ db[i].year = r.year
      /\ db[i].make = r.make
      /\ db[i].model = r.model
      /\ db[i].listing_price # None }

\* those of them with a value for every requested feature
CompleteRows(db, r) ==
  { i \in PriceBearing(db, r) :
      "mileage" \in Range(requested_features(r)) => db[i].listing_mileage # None }

SomeFeatureVaries(db, r) ==
  \E f \in Range(requested_features(r)) :
    \E i, j \in CompleteRows(db, r) : encoded_value(db[i], f) # encoded_value(db[j], f)

\* C16: a call of train_model_for_vehicle produces a model only if the store
\* has at least 10 price-bearing listings of exactly the requested
\* year/make/model, at least 5 rows remain after dropping rows with a missing
\* feature value, and at least one requested feature is non-constant in the
\* remaining rows; in every other case it reports no model; the training rows
\* come only from listings with a price and that exact year/make/model.
C16_TrainingConditions ==
  [][ \A p \in Procs :
        ( pc[p] = "train" /\ pc'[p] # "train" ) =>
          LET produced == loc'[p].tuple.regression_model # None
              met == /\ Cardinality(PriceBearing(store, req[p])) >= 10
                     /\ Cardinality(CompleteRows(store, req[p])) >= 5
                     /\ SomeFeatureVaries(store, req[p])
          IN  /\ loc'[p].trained
              /\ produced => met
              /\ ~met => ( ~produced /\ pc'[p] \in { "fallback", "done" } )
              /\ produced =>
                   /\ Val(loc'[p].tuple.regression_model).rows = CompleteRows(store, req[p])
                   /\ Val(loc'[p].tuple.regression_model).rows \subseteq PriceBearing(store, req[p])
    ]_vars

\* a model trained on the four rows of ten that have a mileage is refused; one
\* trained on all ten rows, mileage not being requested, is produced
C16_Witness ==
  /\ store = SeedNullMileage
  /\ loc[Worker].trained
  /\ loc[Worker].tuple.regression_model # None
  /\ Val(loc[Worker].tuple.regression_model).rows = 1..10
  /\ \E k \in DOMAIN train_log : train_log[k].calls = 1 /\ train_log[k].models = 0

(***************************************************************************)
(* Two requests racing for one key (SpecConcurrent).                       *)
(***************************************************************************)
\* two handlers that both missed the cache for the same key and both trained
BothMissed(p, q) ==
  /\ p # q
  /\ loc[p].trained /\ loc[q].trained
  /\ ~loc[p].hit /\ ~loc[q].hit
  /\ loc[p].model_key = loc[q].model_key

\* C17 as stated, for two requests that raised no error: when both missed the
\* cache for the same key, both complete with a result computed from their own
\* model and the cache afterwards holds one model for the key.
C17_BothHoldModels ==
  \A p, q \in Procs :
    ( /\ BothMissed(p, q)
      /\ Finished(p) /\ Finished(q)
      /\ res[p].status = "ok" /\ res[q].status = "ok" )
    => /\ res[p].path = "regression"
       /\ res[q].path = "regression"
       /\ loc[p].model_key \in DOMAIN model_cache

InBody(p) == pc[p] \in { "lookup", "train", "cache_set", "predict", "fallback", "return" }

\* a handler inside the body can always take its next step
NeverWaits == \A p \in Procs : InBody(p) => ENABLED Step(p)

\* the result of p is the regression result of its own tuple, on the store as
\* it stood when p predicted
OwnResult(p) ==
  \E n \in 0..Len(store) :
    res[p] = regression_result(SubSeq(store, 1, n), req[p], loc[p].tuple,
                               res[p].calculation_date)

BothTrainedModels(p, q) ==
  /\ BothMissed(p, q)
  /\ SameKeyInputs(req[p], req[q])
  /\ loc[p].tuple.regression_model # None
  /\ loc[q].tuple.regression_model # None

RaceOutcome ==
  \A p, q \in Procs :
    /\ ( BothMissed(p, q) /\ loc[p].tuple.regression_model = None /\ Finished(p) ) =>
         \/ res[p].status = "ok" /\ res[p].path = "fallback"
         \/ res[p].status = "error" /\ res[p].error = "ValueError"
    /\ BothTrainedModels(p, q) =>
         /\ Finished(p) => ( res[p].status = "ok" /\ OwnResult(p) )
         /\ ( pc[p] \in { "predict", "return", "done" }
              /\ pc[q] \in { "predict", "return", "done" } ) =>
              /\ loc[p].model_key \in DOMAIN model_cache
              /\ model_cache[loc[p].model_key] \in { loc[p].tuple, loc[q].tuple }
         /\ Val(loc[p].tuple.regression_model).rows = Val(loc[q].tuple.regression_model).rows
              => loc[p].tuple = loc[q].tuple

\* each cache.set overwrites the key with the writer's own tuple, and nothing
\* else changes the model cache
LastWriteWins ==
  /\ \A p \in Procs :
       ( pc[p] = "cache_set" /\ pc'[p] # "cache_set" ) =>
         model_cache' = Put(model_cache, loc[p].model_key, loc[p].tuple)
  /\ ( \A p \in Procs : pc[p] = "cache_set" => pc'[p] = "cache_set" ) =>
       model_cache' = model_cache

\* C17 as amended: for every interleaving of two concurrent requests for the
\* same year/make/model and feature set that both miss the cache, neither
\* waits on the other and both train.  When both trainings produce a model,
\* both complete with a result computed from their own model, and afterwards
\* the cache holds for the key exactly one model, the one written last (equal
\* to the other when the store did not change between the trainings).  When a
\* training produces no model, that request writes nothing to the cache and
\* falls back, or raises ValueError when the trainer found fewer than 10
\* listings.
C17_Race == []NeverWaits /\ []RaceOutcome /\ [][LastWriteWins]_vars

\* both trained a model, a row was imported between the two trainings, and the
\* cache holds one of the two different models
C17_Witness ==
  \E p, q \in Procs :
    /\ BothTrainedModels(p, q)
    /\ Finished(p) /\ Finished(q)
    /\ loc[p].tuple # loc[q].tuple
    /\ model_cache[loc[p].model_key] = loc[q].tuple
    /\ res[p].status = "ok" /\ res[q].status = "ok"

(***************************************************************************)
(* Cache keys and the vehicles they stand for.                             *)
(***************************************************************************)
VehicleOf(r) == << r.year, r.make, r.model >>

\* the model in the hands of p was trained from the listings of another
\* year/make/model than the one p was asked to value
ForeignModel(p) ==
  /\ pc[p] \in { "predict", "return", "done" }
  /\ loc[p].tuple.regression_model # None
  /\ Val(loc[p].tuple.regression_model).vehicle # VehicleOf(req[p])

\* C18: distinct (year, make, model, requested-feature-set) combinations map
\* to distinct model cache keys, and no request predicts with a model fetched
\* from the cache that was trained from another vehicle's listings.
C18_DistinctKeys ==
  \A p \in Procs :
    /\ loc[p].model_key # "" =>
         \A r \in RequestChoices :
           model_key(r) = loc[p].model_key => SameKeyInputs(r, req[p])
    /\ ~ForeignModel(p)

(***************************************************************************)
(* Memoization of calculate_market_value.                                  *)
(***************************************************************************)
\* the handler that completed a call is called again with the same
\* arguments, no cache entry having timed out in between
SecondCall(p) ==
  /\ pc[p] = "done"
  /\ served' = served + 1
  /\ req'[p] = req[p]
  /\ expiries = 0

\* the call is answered by the memoize wrapper: the body is not entered, so
\* the store is not queried, the model cache is not read and nothing is trained
AnsweredFromMemo(p) ==
  /\ pc'[p] = "done"
  /\ res'[p] = res[p]
  /\ model_cache' = model_cache
  /\ train_log' = train_log

\* C19: a second call with identical arguments within the timeout returns
\* exactly the first call's result (same estimate, method, listings and
\* calculation_date) without querying the listings store, reading the model
\* cache or training, even if the store changed between the two calls.
C19_SecondCallMemoized ==
  [][ \A p \in Procs : SecondCall(p) => AnsweredFromMemo(p) ]_vars

(***************************************************************************)
(* The fallback path and the listings it found.                            *)
(***************************************************************************)
\* the store as the queries of p's result saw it
StoreSeen(p) == SubSeq(store, 1, res[p].seen)

\* the price-bearing listings matching the filters of p's fallback
FallbackMatches(p) == MatchingIds(StoreSeen(p), fallback_filters(req[p]))

\* C20: on the fallback path, method "no_data" is returned only when no
\* price-bearing listing matches the supplied filters; whenever at least one
\* matching listing exists (whatever its price, 0 included) the method is
\* "adjusted_average" and the result lists the matching listings.
C20_NoDataOnlyWithoutListings ==
  \A p \in Procs :
    ( res[p].status = "ok" /\ res[p].path = "fallback" ) =>
      /\ res[p].method = "no_data" => FallbackMatches(p) = {}
      /\ FallbackMatches(p) # {} =>
           /\ res[p].method = "adjusted_average"
           /\ res[p].listings =
                get_listings_with_filters(StoreSeen(p), fallback_filters(req[p]),
                                          Some(default_limit))

====
